---------------------------- MODULE Spec2Model ----------------------------
(***************************************************************************)
(* PyOxidizer configuration resolution (pyrepackager/config.rs).           *)
(*                                                                         *)
(* parse_config deserializes a TOML manifest into a ParsedConfig and       *)
(* resolves it against one build target.  The model keeps the manifest,    *)
(* the requested target, the locals of parse_config and the position in    *)
(* its body; every block of parse_config that ends in an early return is   *)
(* one action.                                                             *)
(*                                                                         *)
(* Option<T> is a sequence: <<>> is None, <<v>> is Some(v).  Strings that  *)
(* the code inspects (split, starts_with, slicing) are sequences of        *)
(* one-character strings; strings that are only cloned are TLA+ strings.   *)
(***************************************************************************)
EXTENDS Integers, Sequences, FiniteSets, TLC

VARIABLES
    target,                         \* parse_config's `target` argument
    config,                         \* the manifest: ParsedConfig, with the keys present
    pc,                             \* position in parse_config
    result,                         \* the value parse_config returns
    selected,                       \* per category, the indices its filter let through
    application_name,
    build_path,
    python_distribution,
    py,                             \* the `let mut` locals of lines 608-626
    have_stdlib_extensions_policy,
    have_stdlib,
    python_packaging,
    run,
    distributions,
    collector,                      \* the OxidizedResourceCollector instance, if created
    call,                           \* the last call made on the binding
    outcome                         \* the PyResult of that call

parse_vars == <<target, config, pc, result, selected, application_name, build_path,
                python_distribution, py, have_stdlib_extensions_policy, have_stdlib,
                python_packaging, run, distributions>>

collector_vars == <<collector, call, outcome>>

vars == <<parse_vars, collector_vars>>

----------------------------------------------------------------------------
(* Option<T> *)

None == <<>>

Some(v) == <<v>>

IsSome(o) == Len(o) = 1

Unwrap(o) == o[1]

----------------------------------------------------------------------------
(* Strings the code looks into, as sequences of characters. *)

EMBEDDED == <<"e", "m", "b", "e", "d", "d", "e", "d">>

APP_RELATIVE == <<"a", "p", "p", "-", "r", "e", "l", "a", "t", "i", "v", "e", ":">>

AppRelativeSkip == 13

StartsWith(value, prefix) ==
    /\ Len(value) >= Len(prefix)
    /\ SubSeq(value, 1, Len(prefix)) = prefix

\* value[from..value.len()], `from` a 0-based byte offset
SliceFrom(value, from) == SubSeq(value, from + 1, Len(value))

InvalidInstallLocation == "invalid install_location: {}"

OkValue(v) == [tag |-> "Ok", value |-> v]

ErrValue(m, a) == [tag |-> "Err", msg |-> m, arg |-> a]

\* value without one trailing space
TrimEnd(value) ==
    IF value # <<>> /\ value[Len(value)] = " "
    THEN SubSeq(value, 1, Len(value) - 1)
    ELSE value

\* resolve_install_location trimming its argument first
resolve_install_location_trimmed(value) ==
    IF TrimEnd(value) = EMBEDDED
    THEN OkValue([variant |-> "Embedded"])
    ELSE IF StartsWith(TrimEnd(value), APP_RELATIVE)
         THEN OkValue([variant |-> "AppRelative",
                       path |-> SliceFrom(TrimEnd(value), AppRelativeSkip)])
         ELSE ErrValue(InvalidInstallLocation, value)

resolve_install_location(value) ==
    IF value = EMBEDDED
    THEN OkValue([variant |-> "Embedded"])
    ELSE IF StartsWith(value, APP_RELATIVE)
         THEN OkValue([variant |-> "AppRelative", path |-> SliceFrom(value, AppRelativeSkip)])
         ELSE ErrValue(InvalidInstallLocation, value)

\* str::split(':'): the pieces between separators, always at least one
RECURSIVE SplitFrom(_, _, _)
SplitFrom(v, sep, piece) ==
    IF v = <<>>
    THEN <<piece>>
    ELSE IF Head(v) = sep
         THEN <<piece>> \o SplitFrom(Tail(v), sep, <<>>)
         ELSE SplitFrom(Tail(v), sep, Append(piece, Head(v)))

Split(v, sep) == SplitFrom(v, sep, <<>>)

----------------------------------------------------------------------------
(* The target filters. *)

ALL == "all"

\* TargetFilter ignoring the target: every entry is active
TargetFilterAny(build_target, t) == TRUE

\* TargetFilter without its wildcard arm
TargetFilterNoWildcard(build_target, t) == build_target = t

\* the closure used for build, embedded_python_config, packaging_rule,
\* embedded_python_run and distribution entries
TargetFilter(build_target, t) == build_target = "all" \/ build_target = t

\* DistributionTargetFilter honouring the wildcard like the other categories
DistributionTargetFilterWildcard(dist_target, t) == dist_target = "all" \/ dist_target = t

\* the test used for python_distribution entries
DistributionTargetFilter(dist_target, t) == dist_target = t

\* Filtered without the filter: every entry goes through
Unfiltered(entries, t, i) == [k \in 1..Len(entries) |-> k]

\* indices of the entries the closure of lines 539, 631, 726.. lets through
RECURSIVE Filtered(_, _, _)
Filtered(entries, t, i) ==
    IF i > Len(entries)
    THEN <<>>
    ELSE (IF TargetFilter(entries[i].build_target, t) THEN <<i>> ELSE <<>>)
         \o Filtered(entries, t, i + 1)

\* indices of the python_distribution entries the filter_map of 566-596 keeps
RECURSIVE FilteredDistributions(_, _, _)
FilteredDistributions(entries, t, i) ==
    IF i > Len(entries)
    THEN <<>>
    ELSE (IF DistributionTargetFilter(entries[i].build_target, t) THEN <<i>> ELSE <<>>)
         \o FilteredDistributions(entries, t, i + 1)

----------------------------------------------------------------------------
(* Deserialization: the keys of ParsedConfig without #[serde(default)].    *)

RequiredKeys == <<"packaging_rule", "embedded_python_run">>

MissingField == "missing field {}"

RECURSIVE FirstMissing(_, _)
FirstMissing(keys, i) ==
    IF i > Len(RequiredKeys)
    THEN None
    ELSE IF RequiredKeys[i] \notin keys
         THEN Some(RequiredKeys[i])
         ELSE FirstMissing(keys, i + 1)

----------------------------------------------------------------------------
(* [[build]] *)

\* canonicalize_path(config_path.parent()), as path tokens
Origin == <<"/proj">>

ORIGIN_TOKEN == "$ORIGIN"

\* String::replace(from, to) over path tokens
RECURSIVE Replace(_, _, _)
Replace(path, from, to) ==
    IF path = <<>>
    THEN <<>>
    ELSE (IF Head(path) = from THEN to ELSE <<Head(path)>>) \o Replace(Tail(path), from, to)

\* PathBuf::join
Join(path, name) == path \o <<"/", name>>

DefaultBuildPath == Join(Origin, "build")

MissingApplicationName == "no [[build]] application_name defined"

\* ApplyBuild replacing the whole record: a field the entry omits is reset
ApplyBuildWholeRecord(acc, build_config) ==
    [application_name |-> build_config.application_name,
     build_path |->
        IF IsSome(build_config.build_path)
        THEN Replace(Unwrap(build_config.build_path), ORIGIN_TOKEN, Origin)
        ELSE DefaultBuildPath]

\* one iteration of the loop of lines 536-548
ApplyBuild(acc, build_config) ==
    [application_name |->
        IF IsSome(build_config.application_name)
        THEN Some(Unwrap(build_config.application_name))
        ELSE acc.application_name,
     build_path |->
        IF IsSome(build_config.build_path)
        THEN Replace(Unwrap(build_config.build_path), ORIGIN_TOKEN, Origin)
        ELSE acc.build_path]

RECURSIVE FoldBuilds(_, _, _, _)
FoldBuilds(builds, idxs, k, acc) ==
    IF k > Len(idxs)
    THEN acc
    ELSE FoldBuilds(builds, idxs, k + 1, ApplyBuild(acc, builds[idxs[k]]))

----------------------------------------------------------------------------
(* [[python_distribution]] *)

NoDistributionSections == "no [[python_distribution]] sections"

NoMatchingDistribution == "no suitable Python distributions found for target {}"

\* ConfigPythonDistribution -> PythonDistribution, lines 573-576 and 588-591
ConvertDistribution(d) ==
    IF d.variant = "Local"
    THEN [variant |-> "Local", local_path |-> d.local_path, sha256 |-> d.sha256]
    ELSE [variant |-> "Url", url |-> d.url, sha256 |-> d.sha256]

\* FirstOf taking the last element: last-wins
LastOf(idxs) == IF idxs = <<>> THEN None ELSE Some(idxs[Len(idxs)])

\* .next() of the filter_map iterator
FirstOf(idxs) == IF idxs = <<>> THEN None ELSE Some(Head(idxs))

----------------------------------------------------------------------------
(* [[embedded_python_config]] *)

WINDOWS_MSVC == "x86_64-pc-windows-msvc"

InvalidOptimizeLevel == "illegal optimize_level {}; value must be 0, 1, or 2"

TerminfoDirsRequired == "terminfo_resolution = static requires terminfo_dirs to be set"

IndexOutOfBounds == "index out of bounds"

PanicValue(m) == [tag |-> "Panic", msg |-> m]

\* `if let Some(v) = field { local = v }`
Over(field, local) == IF IsSome(field) THEN Unwrap(field) ELSE local

\* the locals declared at lines 608-626
PythonDefaults(t) ==
    [dont_write_bytecode |-> TRUE,
     ignore_environment |-> TRUE,
     no_site |-> TRUE,
     no_user_site_directory |-> TRUE,
     optimize_level |-> 0,
     stdio_encoding_name |-> None,
     stdio_encoding_errors |-> None,
     unbuffered_stdio |-> FALSE,
     filesystem_importer |-> FALSE,
     sys_frozen |-> FALSE,
     sys_meipass |-> FALSE,
     sys_paths |-> <<>>,
     raw_allocator |-> IF t = WINDOWS_MSVC THEN "System" ELSE "Jemalloc",
     terminfo_resolution |-> [variant |-> "Dynamic"],
     write_modules_directory_env |-> None]

\* ConvertTerminfo accepting static without terminfo_dirs
ConvertTerminfoLenient(c) ==
    IF Unwrap(c.terminfo_resolution) = "dynamic"
    THEN OkValue([variant |-> "Dynamic"])
    ELSE IF Unwrap(c.terminfo_resolution) = "none"
         THEN OkValue([variant |-> "None"])
         ELSE OkValue([variant |-> "Static",
                       dirs |-> IF IsSome(c.terminfo_dirs) THEN Unwrap(c.terminfo_dirs) ELSE ""])

\* the match of lines 694-706, reached only with terminfo_resolution set
ConvertTerminfo(c) ==
    IF Unwrap(c.terminfo_resolution) = "dynamic"
    THEN OkValue([variant |-> "Dynamic"])
    ELSE IF Unwrap(c.terminfo_resolution) = "none"
         THEN OkValue([variant |-> "None"])
         ELSE IF IsSome(c.terminfo_dirs)
              THEN OkValue([variant |-> "Static", dirs |-> Unwrap(c.terminfo_dirs)])
              ELSE ErrValue(TerminfoDirsRequired, None)

\* one iteration of the loop of lines 628-712: the new locals, or the early
\* return, or the panic of values[1]
ApplyPythonConfig(acc, c) ==
    LET values == IF IsSome(c.stdio_encoding)
                  THEN Split(Unwrap(c.stdio_encoding), ":")
                  ELSE <<>>
        terminfo == IF IsSome(c.terminfo_resolution)
                    THEN ConvertTerminfo(c)
                    ELSE OkValue(acc.terminfo_resolution)
    IN  IF IsSome(c.optimize_level) /\ Unwrap(c.optimize_level) \notin {0, 1, 2}
        THEN ErrValue(InvalidOptimizeLevel, Unwrap(c.optimize_level))
        ELSE IF IsSome(c.stdio_encoding) /\ Len(values) < 2
        THEN PanicValue(IndexOutOfBounds)
        ELSE IF terminfo.tag = "Err"
        THEN terminfo
        ELSE OkValue(
          [dont_write_bytecode |-> Over(c.dont_write_bytecode, acc.dont_write_bytecode),
           ignore_environment |-> Over(c.ignore_environment, acc.ignore_environment),
           no_site |-> Over(c.no_site, acc.no_site),
           no_user_site_directory |->
               Over(c.no_user_site_directory, acc.no_user_site_directory),
           optimize_level |-> Over(c.optimize_level, acc.optimize_level),
           stdio_encoding_name |->
               IF IsSome(c.stdio_encoding) THEN Some(values[1]) ELSE acc.stdio_encoding_name,
           stdio_encoding_errors |->
               IF IsSome(c.stdio_encoding) THEN Some(values[2]) ELSE acc.stdio_encoding_errors,
           unbuffered_stdio |-> Over(c.unbuffered_stdio, acc.unbuffered_stdio),
           filesystem_importer |-> Over(c.filesystem_importer, acc.filesystem_importer),
           sys_frozen |-> Over(c.sys_frozen, acc.sys_frozen),
           sys_meipass |-> Over(c.sys_meipass, acc.sys_meipass),
           sys_paths |-> Over(c.sys_paths, acc.sys_paths),
           raw_allocator |-> Over(c.raw_allocator, acc.raw_allocator),
           terminfo_resolution |-> terminfo.value,
           write_modules_directory_env |->
               IF IsSome(c.write_modules_directory_env)
               THEN Some(Unwrap(c.write_modules_directory_env))
               ELSE acc.write_modules_directory_env])

\* FoldPythonConfigs validating at the end of the loop only: an entry's error
\* is dropped when a later entry passes
RECURSIVE FoldPythonConfigsLate(_, _, _, _)
FoldPythonConfigsLate(python_configs, idxs, k, acc) ==
    IF k > Len(idxs)
    THEN [tag |-> "Ok", value |-> acc, at |-> 0]
    ELSE LET r == ApplyPythonConfig(acc, python_configs[idxs[k]])
         IN  IF r.tag = "Ok"
             THEN FoldPythonConfigsLate(python_configs, idxs, k + 1, r.value)
             ELSE IF k < Len(idxs)
                  THEN FoldPythonConfigsLate(python_configs, idxs, k + 1, acc)
                  ELSE [tag |-> r.tag, value |-> r, at |-> k]

\* the loop of lines 628-712 over the filtered entries; `at` is the entry
\* that ended it early
RECURSIVE FoldPythonConfigs(_, _, _, _)
FoldPythonConfigs(python_configs, idxs, k, acc) ==
    IF k > Len(idxs)
    THEN [tag |-> "Ok", value |-> acc, at |-> 0]
    ELSE LET r == ApplyPythonConfig(acc, python_configs[idxs[k]])
         IN  IF r.tag = "Ok"
             THEN FoldPythonConfigs(python_configs, idxs, k + 1, r.value)
             ELSE [tag |-> r.tag, value |-> r, at |-> k]

----------------------------------------------------------------------------
(* [[packaging_rule]] *)

MissingStdlibExtensionsPolicy == "no type = stdlib-extensions-policy entry in [[packaging_rule]]"

MissingStdlibRule == "no type = stdlib entry in [[packaging_rule]]"

\* the variants whose arm calls resolve_install_location
HasInstallLocation(r) ==
    r.type \in {"PackageRoot", "PipInstallSimple", "PipRequirementsFile",
                "SetupPyInstall", "Stdlib", "Virtualenv"}

\* the variant a rule becomes once its install_location is resolved to `loc`
Packaged(r, loc) ==
    CASE r.type = "FilterInclude" ->
           [type |-> "FilterInclude", files |-> r.files, glob_files |-> r.glob_files]
      [] r.type = "PackageRoot" ->
           [type |-> "PackageRoot", path |-> r.path, packages |-> r.packages,
            optimize_level |-> r.optimize_level, excludes |-> r.excludes,
            include_source |-> r.include_source, install_location |-> loc]
      [] r.type = "PipInstallSimple" ->
           [type |-> "PipInstallSimple", package |-> r.package,
            optimize_level |-> r.optimize_level, excludes |-> r.excludes,
            include_source |-> r.include_source, install_location |-> loc,
            extra_args |-> r.extra_args]
      [] r.type = "PipRequirementsFile" ->
           [type |-> "PipRequirementsFile", requirements_path |-> r.requirements_path,
            optimize_level |-> r.optimize_level, include_source |-> r.include_source,
            install_location |-> loc]
      [] r.type = "SetupPyInstall" ->
           [type |-> "SetupPyInstall", path |-> r.package_path, extra_env |-> r.extra_env,
            extra_global_arguments |-> r.extra_global_arguments,
            optimize_level |-> r.optimize_level, include_source |-> r.include_source,
            install_location |-> loc]
      [] r.type = "Stdlib" ->
           [type |-> "Stdlib", optimize_level |-> r.optimize_level,
            exclude_test_modules |-> r.exclude_test_modules,
            include_source |-> r.include_source,
            include_resources |-> r.include_resources, install_location |-> loc]
      [] r.type = "StdlibExtensionsExplicitExcludes" ->
           [type |-> "StdlibExtensionsExplicitExcludes", excludes |-> r.excludes]
      [] r.type = "StdlibExtensionsExplicitIncludes" ->
           [type |-> "StdlibExtensionsExplicitIncludes", includes |-> r.includes]
      [] r.type = "StdlibExtensionsPolicy" ->
           [type |-> "StdlibExtensionsPolicy", policy |-> r.policy]
      [] r.type = "StdlibExtensionVariant" ->
           [type |-> "StdlibExtensionVariant", extension |-> r.extension,
            variant |-> r.variant]
      [] r.type = "Virtualenv" ->
           [type |-> "Virtualenv", path |-> r.path, optimize_level |-> r.optimize_level,
            excludes |-> r.excludes, include_source |-> r.include_source,
            install_location |-> loc]
      [] r.type = "WriteLicenseFiles" ->
           [type |-> "WriteLicenseFiles", path |-> r.path]

\* MapRule resolving the install_location before it tests the target
MapRuleEager(r, t) ==
    IF HasInstallLocation(r)
    THEN LET loc == resolve_install_location(r.install_location)
         IN  IF loc.tag = "Err"
             THEN loc
             ELSE IF TargetFilter(r.build_target, t)
                  THEN OkValue(Some(Packaged(r, loc.value)))
                  ELSE OkValue(None)
    ELSE IF TargetFilter(r.build_target, t)
         THEN OkValue(Some(Packaged(r, None)))
         ELSE OkValue(None)

\* the closure of lines 720-941 on one rule: Ok(Some(..)), Ok(None) or Err
MapRule(r, t) ==
    IF ~TargetFilter(r.build_target, t)
    THEN OkValue(None)
    ELSE IF HasInstallLocation(r)
         THEN LET loc == resolve_install_location(r.install_location)
              IN  IF loc.tag = "Err" THEN loc ELSE OkValue(Some(Packaged(r, loc.value)))
         ELSE OkValue(Some(Packaged(r, None)))

\* .map(..).collect() into a Result: stops at the first Err.  acc carries the
\* collected options and the two have_ flags the closure sets on its way.
RECURSIVE MapRules(_, _, _, _)
MapRules(rules, t, i, acc) ==
    IF i > Len(rules)
    THEN [tag |-> "Ok", value |-> acc, at |-> 0]
    ELSE LET r == rules[i]
             on == TargetFilter(r.build_target, t)
             m == MapRule(r, t)
             flags == [have_stdlib_extensions_policy |->
                           acc.have_stdlib_extensions_policy
                           \/ (on /\ r.type = "StdlibExtensionsPolicy"),
                       have_stdlib |-> acc.have_stdlib \/ (on /\ r.type = "Stdlib")]
         IN  IF m.tag = "Err"
             THEN [tag |-> "Err", value |-> m, at |-> i,
                   have_stdlib_extensions_policy |-> flags.have_stdlib_extensions_policy,
                   have_stdlib |-> flags.have_stdlib]
             ELSE MapRules(rules, t, i + 1,
                    [options |-> Append(acc.options, m.value),
                     have_stdlib_extensions_policy |-> flags.have_stdlib_extensions_policy,
                     have_stdlib |-> flags.have_stdlib])

\* FilterMap collecting back to front
RECURSIVE FilterMapReversed(_)
FilterMapReversed(options) ==
    IF options = <<>>
    THEN <<>>
    ELSE FilterMapReversed(Tail(options)) \o Head(options)

\* .iter().filter_map(|v| v.clone()).collect()
RECURSIVE FilterMap(_)
FilterMap(options) ==
    IF options = <<>>
    THEN <<>>
    ELSE Head(options) \o FilterMap(Tail(options))

----------------------------------------------------------------------------
(* [[embedded_python_run]] *)

\* ConfigRunMode -> RunMode, lines 966-1005
ConvertRunMode(r) ==
    CASE r.mode = "Eval" -> [mode |-> "Eval", code |-> r.code]
      [] r.mode = "Module" -> [mode |-> "Module", module |-> r.module]
      [] r.mode = "Noop" -> [mode |-> "Noop"]
      [] r.mode = "Repl" -> [mode |-> "Repl"]

\* FoldRun keeping the first active entry
FoldRunFirst(python_run, idxs, k, acc) ==
    IF idxs = <<>> THEN acc ELSE ConvertRunMode(python_run[idxs[1]])

\* `for run_mode in .. { run = run_mode; }`
RECURSIVE FoldRun(_, _, _, _)
FoldRun(python_run, idxs, k, acc) ==
    IF k > Len(idxs)
    THEN acc
    ELSE FoldRun(python_run, idxs, k + 1, ConvertRunMode(python_run[idxs[k]]))

----------------------------------------------------------------------------
(* [[distribution]] *)

\* ConfigDistribution -> Distribution, lines 1016-1043
ConvertDistributionRule(d) ==
    IF d.type = "Tarball"
    THEN [type |-> "Tarball", path_prefix |-> d.path_prefix]
    ELSE [type |-> "WixInstaller",
          msi_upgrade_code_x86 |-> d.msi_upgrade_code_x86,
          msi_upgrade_code_amd64 |-> d.msi_upgrade_code_amd64,
          bundle_upgrade_code |-> d.bundle_upgrade_code]

\* MapDistributions keeping the entries of every target
RECURSIVE MapDistributionsAll(_, _, _)
MapDistributionsAll(entries, t, i) ==
    IF i > Len(entries)
    THEN <<>>
    ELSE <<Some(ConvertDistributionRule(entries[i]))>>
         \o MapDistributionsAll(entries, t, i + 1)

RECURSIVE MapDistributions(_, _, _)
MapDistributions(entries, t, i) ==
    IF i > Len(entries)
    THEN <<>>
    ELSE <<IF TargetFilter(entries[i].build_target, t)
           THEN Some(ConvertDistributionRule(entries[i]))
           ELSE None>>
         \o MapDistributions(entries, t, i + 1)

\* the indices of the Some(..) of a mapped list
RECURSIVE SomeIndices(_, _)
SomeIndices(options, i) ==
    IF i > Len(options)
    THEN <<>>
    ELSE (IF IsSome(options[i]) THEN <<i>> ELSE <<>>) \o SomeIndices(options, i + 1)

----------------------------------------------------------------------------
(* parse_config, block by block *)

Pending == [tag |-> "Pending"]

\* `return Err(..)`, and a panic unwinding out of parse_config
Return(r) ==
    /\ result' = r
    /\ pc' = "done"

Goto(step) ==
    /\ pc' = step
    /\ UNCHANGED result

ConfigPath == Origin \o <<"/", "pyoxidizer.toml">>

\* toml::from_slice into ParsedConfig, lines 519-522
Deserialize ==
    /\ pc = "deserialize"
    /\ UNCHANGED collector_vars
    /\ LET missing == FirstMissing(config.keys, 1)
       IN  IF IsSome(missing)
           THEN Return(ErrValue(MissingField, Unwrap(missing)))
           ELSE Goto("build")
    /\ UNCHANGED <<target, config, selected, application_name, build_path,
                   python_distribution, py, have_stdlib_extensions_policy,
                   have_stdlib, python_packaging, run, distributions>>

\* lines 533-557
ResolveBuild ==
    /\ pc = "build"
    /\ UNCHANGED collector_vars
    /\ LET idxs == Filtered(config.builds, target, 1)
           acc == FoldBuilds(config.builds, idxs, 1,
                             [application_name |-> None, build_path |-> DefaultBuildPath])
       IN  /\ selected' = [selected EXCEPT !.build = idxs]
           /\ application_name' = acc.application_name
           /\ build_path' = acc.build_path
           /\ IF ~IsSome(acc.application_name)
              THEN Return(ErrValue(MissingApplicationName, None))
              ELSE Goto("python_distribution")
    /\ UNCHANGED <<target, config, python_distribution, py,
                   have_stdlib_extensions_policy, have_stdlib, python_packaging, run,
                   distributions>>

\* lines 559-606
ResolvePythonDistribution ==
    /\ pc = "python_distribution"
    /\ UNCHANGED collector_vars
    /\ IF config.python_distributions = <<>>
       THEN /\ Return(ErrValue(NoDistributionSections, None))
            /\ UNCHANGED <<selected, python_distribution>>
       ELSE LET idxs == FilteredDistributions(config.python_distributions, target, 1)
                first == FirstOf(idxs)
            IN  /\ selected' = [selected EXCEPT !.python_distribution = idxs]
                /\ IF IsSome(first)
                   THEN /\ python_distribution' =
                              ConvertDistribution(config.python_distributions[Unwrap(first)])
                        /\ Goto("embedded_python_config")
                   ELSE /\ Return(ErrValue(NoMatchingDistribution, target))
                        /\ UNCHANGED python_distribution
    /\ UNCHANGED <<target, config, application_name, build_path, py,
                   have_stdlib_extensions_policy, have_stdlib, python_packaging, run,
                   distributions>>

\* lines 608-712
ResolvePythonConfig ==
    /\ pc = "embedded_python_config"
    /\ UNCHANGED collector_vars
    /\ LET idxs == Filtered(config.python_configs, target, 1)
           r == FoldPythonConfigs(config.python_configs, idxs, 1, PythonDefaults(target))
       IN  IF r.tag = "Ok"
           THEN /\ py' = r.value
                /\ selected' = [selected EXCEPT !.embedded_python_config = idxs]
                /\ Goto("packaging_rule")
           ELSE /\ selected' =
                      [selected EXCEPT !.embedded_python_config = SubSeq(idxs, 1, r.at)]
                /\ Return(r.value)
                /\ UNCHANGED py
    /\ UNCHANGED <<target, config, application_name, build_path, python_distribution,
                   have_stdlib_extensions_policy, have_stdlib, python_packaging, run,
                   distributions>>

\* lines 714-961
ResolvePackaging ==
    /\ pc = "packaging_rule"
    /\ UNCHANGED collector_vars
    /\ LET m == MapRules(config.packaging_rules, target, 1,
                         [options |-> <<>>, have_stdlib_extensions_policy |-> FALSE,
                          have_stdlib |-> FALSE])
       IN  IF m.tag = "Err"
           THEN /\ have_stdlib_extensions_policy' = m.have_stdlib_extensions_policy
                /\ have_stdlib' = m.have_stdlib
                /\ Return(m.value)
                /\ UNCHANGED <<selected, python_packaging>>
           ELSE /\ have_stdlib_extensions_policy' = m.value.have_stdlib_extensions_policy
                /\ have_stdlib' = m.value.have_stdlib
                /\ python_packaging' = FilterMap(m.value.options)
                /\ selected' = [selected EXCEPT
                                  !.packaging_rule = SomeIndices(m.value.options, 1)]
                /\ IF ~m.value.have_stdlib_extensions_policy
                   THEN Return(ErrValue(MissingStdlibExtensionsPolicy, None))
                   ELSE IF ~m.value.have_stdlib
                        THEN Return(ErrValue(MissingStdlibRule, None))
                        ELSE Goto("embedded_python_run")
    /\ UNCHANGED <<target, config, application_name, build_path, python_distribution,
                   py, run, distributions>>

\* lines 963-1008
ResolveRun ==
    /\ pc = "embedded_python_run"
    /\ UNCHANGED collector_vars
    /\ LET idxs == Filtered(config.python_run, target, 1)
       IN  /\ run' = FoldRun(config.python_run, idxs, 1, [mode |-> "Noop"])
           /\ selected' = [selected EXCEPT !.embedded_python_run = idxs]
    /\ Goto("filesystem_importer")
    /\ UNCHANGED <<target, config, application_name, build_path, python_distribution,
                   py, have_stdlib_extensions_policy, have_stdlib, python_packaging,
                   distributions>>

\* DeriveFilesystemImporter leaving the flag as the fold set it
DeriveFilesystemImporterSkip ==
    /\ pc = "filesystem_importer"
    /\ UNCHANGED collector_vars
    /\ Goto("distribution")
    /\ UNCHANGED <<target, config, selected, application_name, build_path,
                   python_distribution, py, have_stdlib_extensions_policy, have_stdlib,
                   python_packaging, run, distributions>>

\* line 1010
DeriveFilesystemImporter ==
    /\ pc = "filesystem_importer"
    /\ UNCHANGED collector_vars
    /\ py' = [py EXCEPT !.filesystem_importer = py.filesystem_importer \/ py.sys_paths # <<>>]
    /\ Goto("distribution")
    /\ UNCHANGED <<target, config, selected, application_name, build_path,
                   python_distribution, have_stdlib_extensions_policy, have_stdlib,
                   python_packaging, run, distributions>>

\* lines 1012-1054
ResolveDistributions ==
    /\ pc = "distribution"
    /\ UNCHANGED collector_vars
    /\ LET options == MapDistributions(config.distributions, target, 1)
       IN  /\ distributions' = FilterMap(options)
           /\ selected' = [selected EXCEPT !.distribution = SomeIndices(options, 1)]
    /\ Goto("return")
    /\ UNCHANGED <<target, config, application_name, build_path, python_distribution,
                   py, have_stdlib_extensions_policy, have_stdlib, python_packaging, run>>

\* the Config of lines 1056-1078
Config ==
    [config_path |-> ConfigPath,
     build_config |-> [application_name |-> Unwrap(application_name),
                       build_path |-> build_path],
     dont_write_bytecode |-> py.dont_write_bytecode,
     ignore_environment |-> py.ignore_environment,
     no_site |-> py.no_site,
     no_user_site_directory |-> py.no_user_site_directory,
     optimize_level |-> py.optimize_level,
     python_distribution |-> python_distribution,
     stdio_encoding_name |-> py.stdio_encoding_name,
     stdio_encoding_errors |-> py.stdio_encoding_errors,
     unbuffered_stdio |-> py.unbuffered_stdio,
     python_packaging |-> python_packaging,
     run |-> run,
     filesystem_importer |-> py.filesystem_importer,
     sys_frozen |-> py.sys_frozen,
     sys_meipass |-> py.sys_meipass,
     sys_paths |-> py.sys_paths,
     raw_allocator |-> py.raw_allocator,
     terminfo_resolution |-> py.terminfo_resolution,
     write_modules_directory_env |-> py.write_modules_directory_env,
     distributions |-> distributions]

ReturnConfig ==
    /\ pc = "return"
    /\ UNCHANGED collector_vars
    /\ Return(OkValue(Config))
    /\ UNCHANGED <<target, config, selected, application_name, build_path,
                   python_distribution, py, have_stdlib_extensions_policy, have_stdlib,
                   python_packaging, run, distributions>>

\* parse_config as a function of the manifest and the target: the blocks
\* above, in their order
parse_config(cfg, t) ==
    LET missing == FirstMissing(cfg.keys, 1)
        b == FoldBuilds(cfg.builds, Filtered(cfg.builds, t, 1), 1,
                        [application_name |-> None, build_path |-> DefaultBuildPath])
        first == FirstOf(FilteredDistributions(cfg.python_distributions, t, 1))
        p == FoldPythonConfigs(cfg.python_configs, Filtered(cfg.python_configs, t, 1), 1,
                               PythonDefaults(t))
        m == MapRules(cfg.packaging_rules, t, 1,
                      [options |-> <<>>, have_stdlib_extensions_policy |-> FALSE,
                       have_stdlib |-> FALSE])
    IN  IF IsSome(missing) THEN ErrValue(MissingField, Unwrap(missing))
        ELSE IF ~IsSome(b.application_name) THEN ErrValue(MissingApplicationName, None)
        ELSE IF cfg.python_distributions = <<>> THEN ErrValue(NoDistributionSections, None)
        ELSE IF ~IsSome(first) THEN ErrValue(NoMatchingDistribution, t)
        ELSE IF p.tag # "Ok" THEN p.value
        ELSE IF m.tag = "Err" THEN m.value
        ELSE IF ~m.value.have_stdlib_extensions_policy
             THEN ErrValue(MissingStdlibExtensionsPolicy, None)
        ELSE IF ~m.value.have_stdlib THEN ErrValue(MissingStdlibRule, None)
        ELSE OkValue(
               [config_path |-> ConfigPath,
                build_config |-> [application_name |-> Unwrap(b.application_name),
                                  build_path |-> b.build_path],
                dont_write_bytecode |-> p.value.dont_write_bytecode,
                ignore_environment |-> p.value.ignore_environment,
                no_site |-> p.value.no_site,
                no_user_site_directory |-> p.value.no_user_site_directory,
                optimize_level |-> p.value.optimize_level,
                python_distribution |->
                    ConvertDistribution(cfg.python_distributions[Unwrap(first)]),
                stdio_encoding_name |-> p.value.stdio_encoding_name,
                stdio_encoding_errors |-> p.value.stdio_encoding_errors,
                unbuffered_stdio |-> p.value.unbuffered_stdio,
                python_packaging |-> FilterMap(m.value.options),
                run |-> FoldRun(cfg.python_run, Filtered(cfg.python_run, t, 1), 1,
                                [mode |-> "Noop"]),
                filesystem_importer |->
                    p.value.filesystem_importer \/ p.value.sys_paths # <<>>,
                sys_frozen |-> p.value.sys_frozen,
                sys_meipass |-> p.value.sys_meipass,
                sys_paths |-> p.value.sys_paths,
                raw_allocator |-> p.value.raw_allocator,
                terminfo_resolution |-> p.value.terminfo_resolution,
                write_modules_directory_env |-> p.value.write_modules_directory_env,
                distributions |-> FilterMap(MapDistributions(cfg.distributions, t, 1))])

Next ==
    \/ Deserialize
    \/ ResolveBuild
    \/ ResolvePythonDistribution
    \/ ResolvePythonConfig
    \/ ResolvePackaging
    \/ ResolveRun
    \/ DeriveFilesystemImporter
    \/ ResolveDistributions
    \/ ReturnConfig

----------------------------------------------------------------------------
(* OxidizedResourceCollector, the binding over PythonResourceCollector.  The
   collector and its policy live in the python_packaging crate; they are
   modelled from spec.md sections 3, 4.3 and 4.4. *)

InvalidPolicyString == "invalid policy string: {}"

UnsupportedResourceKind == "cannot operate on {} values"

DowncastError == "expected {}"

NoCacheTag == "cache_tag is not a str"

PolicyViolation == "policy {} does not allow in-memory resources"

DuplicateResource == "resource {} is already recorded"

PyErrValue(type, m, a) == [tag |-> "Err", type |-> type, msg |-> m, arg |-> a]

\* PythonResourcesPolicy::try_from(&str)
PolicyTryFrom(s) ==
    CASE s = "in-memory-only" -> OkValue("InMemoryOnly")
      [] s = "filesystem-relative-only" -> OkValue("FilesystemRelativeOnly")
      [] s = "prefer-in-memory" -> OkValue("PreferInMemory")
      [] OTHER -> ErrValue(InvalidPolicyString, s)

\* String::from(PythonResourcesPolicy)
PolicyInto(policy) ==
    CASE policy = "InMemoryOnly" -> "in-memory-only"
      [] policy = "FilesystemRelativeOnly" -> "filesystem-relative-only"
      [] policy = "PreferInMemory" -> "prefer-in-memory"

\* PythonResourceCollector::new(&policy, &cache_tag)
NewCollector(policy, cache_tag) ==
    [policy |-> policy, cache_tag |-> cache_tag, resources |-> {}]

\* OxidizedResourceCollector::new that never refuses a policy string
NewLenient(policy, cache_tag) ==
    /\ collector = None
    /\ call' = [op |-> "new", arg |-> policy]
    /\ IF ~IsSome(cache_tag)
       THEN /\ outcome' = PyErrValue("TypeError", NoCacheTag, None)
            /\ UNCHANGED collector
       ELSE /\ collector' = Some(NewCollector("PreferInMemory", Unwrap(cache_tag)))
            /\ outcome' = OkValue("instance")
    /\ UNCHANGED parse_vars

\* OxidizedResourceCollector::new, lines 37-50; cache_tag is what
\* sys.implementation.cache_tag holds, None when it is not a str
New(policy, cache_tag) ==
    /\ collector = None
    /\ call' = [op |-> "new", arg |-> policy]
    /\ LET parsed == PolicyTryFrom(policy)
       IN  IF parsed.tag = "Err"
           THEN /\ outcome' = PyErrValue("ValueError", parsed.msg, parsed.arg)
                /\ UNCHANGED collector
           ELSE IF ~IsSome(cache_tag)
                THEN /\ outcome' = PyErrValue("TypeError", NoCacheTag, None)
                     /\ UNCHANGED collector
                ELSE /\ collector' = Some(NewCollector(parsed.value, Unwrap(cache_tag)))
                     /\ outcome' = OkValue("instance")
    /\ UNCHANGED parse_vars

\* the `policy` property, lines 27-29
Policy ==
    /\ IsSome(collector)
    /\ call' = [op |-> "policy", arg |-> None]
    /\ outcome' = OkValue(PolicyInto(Unwrap(collector).policy))
    /\ UNCHANGED <<parse_vars, collector>>

\* PythonModuleSource::get_resource
GetResource(resource) ==
    [name |-> resource.name, is_package |-> resource.is_package,
     source |-> resource.source]

\* a submission refines a recorded resource of its name when it is the same
\* module (package or not), whatever source it carries
SameIdentity(resource, recorded) ==
    /\ resource.name = recorded.name
    /\ resource.is_package = recorded.is_package

\* add_in_memory_python_module_source recording every submission
AddAlways(c, resource) ==
    IF c.policy = "FilesystemRelativeOnly"
    THEN ErrValue(PolicyViolation, PolicyInto(c.policy))
    ELSE OkValue([c EXCEPT !.resources = c.resources \cup {resource}])

\* PythonResourceCollector::add_in_memory_python_module_source
add_in_memory_python_module_source(c, resource) ==
    IF c.policy = "FilesystemRelativeOnly"
    THEN ErrValue(PolicyViolation, PolicyInto(c.policy))
    ELSE LET same == {r \in c.resources : r.name = resource.name}
         IN  IF \E r \in same : ~SameIdentity(resource, r)
             THEN ErrValue(DuplicateResource, resource.name)
             ELSE OkValue([c EXCEPT !.resources = (c.resources \ same) \cup {resource}])

\* add_in_memory_impl recording the resource before it looks at its type
AddInMemoryEager(resource) ==
    /\ IsSome(collector)
    /\ call' = [op |-> "add_in_memory", arg |-> resource]
    /\ collector' = Some([Unwrap(collector) EXCEPT
                             !.resources = @ \cup {GetResource(resource)}])
    /\ outcome' = IF resource.type_name = "PythonModuleSource"
                  THEN OkValue(None)
                  ELSE PyErrValue("TypeError", UnsupportedResourceKind, resource.type_name)
    /\ UNCHANGED parse_vars

\* add_in_memory_impl, lines 52-70
AddInMemory(resource) ==
    /\ IsSome(collector)
    /\ call' = [op |-> "add_in_memory", arg |-> resource]
    /\ IF resource.type_name = "PythonModuleSource"
       THEN IF ~resource.native
            THEN /\ outcome' = PyErrValue("TypeError", DowncastError, resource.type_name)
                 /\ UNCHANGED collector
            ELSE LET r == add_in_memory_python_module_source(Unwrap(collector),
                                                             GetResource(resource))
                 IN  IF r.tag = "Err"
                     THEN /\ outcome' = PyErrValue("ValueError", r.msg, r.arg)
                          /\ UNCHANGED collector
                     ELSE /\ collector' = Some(r.value)
                          /\ outcome' = OkValue(None)
       ELSE /\ outcome' = PyErrValue("TypeError", UnsupportedResourceKind, resource.type_name)
            /\ UNCHANGED collector
    /\ UNCHANGED parse_vars

----------------------------------------------------------------------------
(* The manifests and targets the model is run on. *)

MaxBuilds == 2

MaxPythonDistributions == 2

MaxPythonConfigs == 2

DeclaredTargets == {ALL, "linux", WINDOWS_MSVC}

RequestedTargets == {"linux", WINDOWS_MSVC}

SeqsUpTo(S, n) == UNION {[1..k -> S] : k \in 0..n}

\* a record with the fields of `base`, those of `over` replacing them
Merge(base, over) ==
    [f \in DOMAIN base |-> IF f \in DOMAIN over THEN over[f] ELSE base[f]]

BuildEntries ==
    {[build_target |-> t, application_name |-> n, build_path |-> p] :
        t \in DeclaredTargets,
        n \in {None, Some("app"), Some("tool")},
        p \in {None, Some(<<ORIGIN_TOKEN, "/", "out">>)}}

PythonDistributionEntries ==
    {[variant |-> "Local", build_target |-> t, local_path |-> "cpython.tar",
      sha256 |-> "aa"] : t \in DeclaredTargets}
    \cup {[variant |-> "Url", build_target |-> t, url |-> "https://cpython",
           sha256 |-> "bb"] : t \in DeclaredTargets}
    \cup {[variant |-> "Local", build_target |-> t, local_path |-> "pypy.tar",
           sha256 |-> "cc"] : t \in DeclaredTargets}

\* a ConfigPython with every field absent
EmptyPythonConfig ==
    [build_target |-> ALL, dont_write_bytecode |-> None, ignore_environment |-> None,
     no_site |-> None, no_user_site_directory |-> None, optimize_level |-> None,
     stdio_encoding |-> None, unbuffered_stdio |-> None, filesystem_importer |-> None,
     sys_frozen |-> None, sys_meipass |-> None, sys_paths |-> None,
     raw_allocator |-> None, terminfo_resolution |-> None, terminfo_dirs |-> None,
     write_modules_directory_env |-> None]

PythonConfigSettings ==
    {[optimize_level |-> Some(1)],
     [optimize_level |-> Some(3)],
     [optimize_level |-> Some(0), dont_write_bytecode |-> Some(FALSE)],
     [stdio_encoding |-> Some(<<"u", ":", "s">>)],
     [stdio_encoding |-> Some(<<"l">>)],
     [terminfo_resolution |-> Some("static"), terminfo_dirs |-> Some("/ti")],
     [terminfo_resolution |-> Some("static")],
     [terminfo_resolution |-> Some("none")],
     [terminfo_dirs |-> Some("/ti")],
     [filesystem_importer |-> Some(TRUE)],
     [filesystem_importer |-> Some(FALSE), sys_paths |-> Some(<<"lib">>)],
     [sys_paths |-> Some(<<>>)],
     [raw_allocator |-> Some("Rust"), unbuffered_stdio |-> Some(TRUE),
      write_modules_directory_env |-> Some("MODS")],
     [optimize_level |-> Some(3), terminfo_resolution |-> Some("static"),
      stdio_encoding |-> Some(<<"l">>)]}

\* with one requested target the wildcard entries alone are active, with the
\* other one every entry is
PythonConfigTargets == {ALL, WINDOWS_MSVC}

PythonConfigEntries ==
    {Merge(EmptyPythonConfig, s @@ [build_target |-> t]) :
        s \in PythonConfigSettings, t \in PythonConfigTargets}

StdlibRule(t, loc) ==
    [type |-> "Stdlib", build_target |-> t, optimize_level |-> 0,
     exclude_test_modules |-> TRUE, include_source |-> TRUE,
     include_resources |-> FALSE, install_location |-> loc]

StdlibExtensionsPolicyRule(t) ==
    [type |-> "StdlibExtensionsPolicy", build_target |-> t, policy |-> "all"]

BothKeys == {"packaging_rule", "embedded_python_run"}

Manifest(b, d, c, r, u, x, k) ==
    [builds |-> b, python_distributions |-> d, python_configs |-> c,
     packaging_rules |-> r, python_run |-> u, distributions |-> x, keys |-> k]

\* a manifest that resolves for every requested target
ValidBuilds == <<[build_target |-> ALL, application_name |-> Some("app"),
                  build_path |-> None]>>

ValidPythonDistributions ==
    <<[variant |-> "Local", build_target |-> "linux", local_path |-> "cpython.tar",
       sha256 |-> "aa"],
      [variant |-> "Url", build_target |-> WINDOWS_MSVC, url |-> "https://cpython",
       sha256 |-> "bb"]>>

ValidPackagingRules == <<StdlibExtensionsPolicyRule(ALL), StdlibRule(ALL, EMBEDDED)>>

BuildManifests ==
    {Manifest(b, d, <<>>, ValidPackagingRules, <<>>, <<>>, BothKeys) :
        b \in SeqsUpTo(BuildEntries, MaxBuilds),
        d \in {ValidPythonDistributions, <<>>}}

PythonDistributionManifests ==
    {Manifest(b, d, <<>>, ValidPackagingRules, <<>>, <<>>, BothKeys) :
        b \in {ValidBuilds, <<>>},
        d \in SeqsUpTo(PythonDistributionEntries, MaxPythonDistributions)}

PythonConfigManifests ==
    {Manifest(ValidBuilds, ValidPythonDistributions, c, ValidPackagingRules, <<>>, <<>>,
              BothKeys) :
        c \in SeqsUpTo(PythonConfigEntries, MaxPythonConfigs)}

\* one entry, or none, in every category, of every declared target: the
\* categories filter side by side
MixedPackagingRules ==
    {[rules |-> <<>>, keys |-> {}]}
    \cup {[rules |-> <<StdlibRule(t1, EMBEDDED), StdlibExtensionsPolicyRule(t2)>>,
           keys |-> {"packaging_rule"}] : t1 \in DeclaredTargets, t2 \in DeclaredTargets}
    \cup {[rules |-> <<StdlibExtensionsPolicyRule(t2), StdlibRule(t1, EMBEDDED)>>,
           keys |-> {"packaging_rule"}] : t1 \in DeclaredTargets, t2 \in DeclaredTargets}

MixedRuns ==
    {[runs |-> <<>>, keys |-> {}], [runs |-> <<>>, keys |-> {"embedded_python_run"}]}
    \cup {[runs |-> <<[mode |-> "Repl", build_target |-> t]>>,
           keys |-> {"embedded_python_run"}] : t \in DeclaredTargets}

MixedManifests ==
    {Manifest(b, d, c, r.rules, u.runs, x, r.keys \cup u.keys) :
        b \in {<<[build_target |-> t, application_name |-> Some("app"),
                  build_path |-> None]>> : t \in DeclaredTargets},
        d \in {<<[variant |-> "Local", build_target |-> t, local_path |-> "cpython.tar",
                  sha256 |-> "aa"]>> : t \in DeclaredTargets},
        c \in {<<>>} \cup {<<Merge(EmptyPythonConfig,
                                   [build_target |-> t, no_site |-> Some(FALSE)])>> :
                              t \in DeclaredTargets},
        r \in MixedPackagingRules,
        u \in MixedRuns,
        x \in {<<>>} \cup {<<[type |-> "Tarball", build_target |-> t,
                               path_prefix |-> None]>> : t \in DeclaredTargets}}

MaxPackagingRules == 3

BOGUS == <<"b", "o", "g", "u", "s">>

\* every variant of ConfigPythonPackaging declared for "all", and the two
\* mandatory ones and a rule with an unparsable install_location declared
\* for one target
PackagingEntries ==
    {StdlibRule(ALL, EMBEDDED),
     StdlibExtensionsPolicyRule(ALL),
     [type |-> "FilterInclude", build_target |-> ALL, files |-> <<"a.py">>,
      glob_files |-> <<>>],
     [type |-> "PackageRoot", build_target |-> ALL, path |-> "src", packages |-> <<"pkg">>,
      optimize_level |-> 1, excludes |-> <<>>, include_source |-> FALSE,
      install_location |-> APP_RELATIVE \o <<"l", "i", "b">>],
     [type |-> "PipInstallSimple", build_target |-> ALL, package |-> "requests",
      optimize_level |-> 0, excludes |-> <<>>, include_source |-> TRUE,
      install_location |-> EMBEDDED, extra_args |-> None],
     [type |-> "PipRequirementsFile", build_target |-> ALL,
      requirements_path |-> "requirements.txt", optimize_level |-> 2,
      include_source |-> TRUE, install_location |-> EMBEDDED],
     [type |-> "SetupPyInstall", build_target |-> ALL, package_path |-> ".",
      extra_env |-> <<>>, extra_global_arguments |-> <<>>, optimize_level |-> 0,
      include_source |-> TRUE, install_location |-> EMBEDDED],
     [type |-> "StdlibExtensionsExplicitExcludes", build_target |-> ALL,
      excludes |-> <<"_ssl">>],
     [type |-> "StdlibExtensionsExplicitIncludes", build_target |-> ALL,
      includes |-> <<"_io">>],
     [type |-> "StdlibExtensionVariant", build_target |-> ALL, extension |-> "readline",
      variant |-> "libedit"],
     [type |-> "Virtualenv", build_target |-> ALL, path |-> "venv", optimize_level |-> 0,
      excludes |-> <<>>, include_source |-> TRUE, install_location |-> BOGUS],
     [type |-> "WriteLicenseFiles", build_target |-> ALL, path |-> "licenses"],
     StdlibRule(WINDOWS_MSVC, EMBEDDED),
     StdlibExtensionsPolicyRule(WINDOWS_MSVC),
     [type |-> "PackageRoot", build_target |-> WINDOWS_MSVC, path |-> "win",
      packages |-> <<"pkg">>, optimize_level |-> 0, excludes |-> <<>>,
      include_source |-> TRUE, install_location |-> BOGUS]}

PackagingManifests ==
    {Manifest(ValidBuilds, ValidPythonDistributions, <<>>, r, <<>>, <<>>, BothKeys) :
        r \in SeqsUpTo(PackagingEntries, MaxPackagingRules)}

InitWith(manifests) ==
    /\ target \in RequestedTargets
    /\ config \in manifests
    /\ pc = "deserialize"
    /\ result = Pending
    /\ selected = [build |-> <<>>, python_distribution |-> <<>>,
                   embedded_python_config |-> <<>>, packaging_rule |-> <<>>,
                   embedded_python_run |-> <<>>, distribution |-> <<>>]
    /\ application_name = None
    /\ build_path = <<>>
    /\ python_distribution = None
    /\ py = None
    /\ have_stdlib_extensions_policy = FALSE
    /\ have_stdlib = FALSE
    /\ python_packaging = <<>>
    /\ run = None
    /\ distributions = <<>>
    /\ collector = None
    /\ call = [op |-> "none"]
    /\ outcome = Pending

MaxLayers == 3

\* a few wildcard entries, and one for a single target, layered deeper
LayeredEntries ==
    {Merge(EmptyPythonConfig, e) :
        e \in {[optimize_level |-> Some(1)],
               [optimize_level |-> Some(2), dont_write_bytecode |-> Some(FALSE)],
               [optimize_level |-> Some(3)],
               [terminfo_resolution |-> Some("static")],
               [terminfo_resolution |-> Some("none"), terminfo_dirs |-> Some("/ti")],
               [build_target |-> WINDOWS_MSVC, optimize_level |-> Some(0),
                terminfo_resolution |-> Some("static"), terminfo_dirs |-> Some("/win")]}}

LayeredManifests ==
    {Manifest(ValidBuilds, ValidPythonDistributions, c, ValidPackagingRules, <<>>, <<>>,
              BothKeys) :
        c \in SeqsUpTo(LayeredEntries, MaxLayers)}

InitFold == InitWith(BuildManifests \cup PythonConfigManifests \cup LayeredManifests)

SpecFold == InitFold /\ [][Next]_vars

MaxDistributions == 3

DistributionEntries ==
    {[type |-> "Tarball", build_target |-> ALL, path_prefix |-> None],
     [type |-> "Tarball", build_target |-> "linux", path_prefix |-> Some("lin")],
     [type |-> "Tarball", build_target |-> WINDOWS_MSVC, path_prefix |-> Some("win")],
     [type |-> "WixInstaller", build_target |-> ALL, msi_upgrade_code_x86 |-> None,
      msi_upgrade_code_amd64 |-> Some("u64"), bundle_upgrade_code |-> None],
     [type |-> "WixInstaller", build_target |-> WINDOWS_MSVC,
      msi_upgrade_code_x86 |-> Some("u86"), msi_upgrade_code_amd64 |-> None,
      bundle_upgrade_code |-> Some("ub")]}

\* the mandatory rules, alone or around a rule of one target
InterleavedPackagingRules ==
    <<StdlibExtensionsPolicyRule(ALL),
      [type |-> "PackageRoot", build_target |-> WINDOWS_MSVC, path |-> "win",
       packages |-> <<"pkg">>, optimize_level |-> 0, excludes |-> <<>>,
       include_source |-> TRUE, install_location |-> EMBEDDED],
      StdlibRule(ALL, EMBEDDED)>>

DistributionManifests ==
    {Manifest(ValidBuilds, ValidPythonDistributions, <<>>, r, <<>>, x, BothKeys) :
        r \in {ValidPackagingRules, InterleavedPackagingRules},
        x \in SeqsUpTo(DistributionEntries, MaxDistributions)}

MaxRuns == 3

RunEntries ==
    {[mode |-> "Eval", build_target |-> ALL, code |-> "a()"],
     [mode |-> "Eval", build_target |-> WINDOWS_MSVC, code |-> "b()"],
     [mode |-> "Module", build_target |-> ALL, module |-> "m"],
     [mode |-> "Module", build_target |-> "linux", module |-> "n"],
     [mode |-> "Noop", build_target |-> WINDOWS_MSVC],
     [mode |-> "Repl", build_target |-> ALL]}

RunManifests ==
    {Manifest(ValidBuilds, ValidPythonDistributions, <<>>, ValidPackagingRules, u, <<>>,
              BothKeys) :
        u \in SeqsUpTo(RunEntries, MaxRuns)}

InitTail == InitWith(PackagingManifests \cup DistributionManifests \cup RunManifests)

SpecTail == InitTail /\ [][Next]_vars

MaxTail == 2

TailAlphabet == {"l", "/", ":", " ", "E"}

\* v with its k-th character replaced by c
ReplaceAt(v, k, c) == [i \in 1..Len(v) |-> IF i = k THEN c ELSE v[i]]

\* the two recognised spellings, and what lies around them: a changed
\* character (another case, a space), a missing end, something before,
\* something after
NearMisses(v) ==
    {ReplaceAt(v, k, c) : k \in 1..Len(v), c \in {"E", " ", "x"}}
    \cup {SubSeq(v, 1, k) : k \in 0..Len(v)}
    \cup {<<c>> \o v : c \in TailAlphabet}

InstallLocations ==
    {BOGUS}
    \cup {EMBEDDED \o tail : tail \in SeqsUpTo(TailAlphabet, MaxTail)}
    \cup {APP_RELATIVE \o tail : tail \in SeqsUpTo(TailAlphabet, MaxTail)}
    \cup NearMisses(EMBEDDED)
    \cup NearMisses(APP_RELATIVE \o <<"l">>)

\* the install_location of a stdlib rule drawn from InstallLocations
InstallLocationManifests ==
    {Manifest(ValidBuilds, ValidPythonDistributions, <<>>,
              <<StdlibExtensionsPolicyRule(ALL), StdlibRule(ALL, loc)>>, <<>>, <<>>,
              BothKeys) :
        loc \in InstallLocations}

InitInstallLocation == InitWith(InstallLocationManifests)

SpecInstallLocation == InitInstallLocation /\ [][Next]_vars

MaxModules == 2

ModuleNames == <<"app", "app.util", "lib", "lib.core">>

PolicyStrings ==
    {"in-memory-only", "filesystem-relative-only", "prefer-in-memory", "bogus",
     "In-Memory-Only", ""}

CacheTags == {Some("cpython-38"), None}

\* module sources, a class of the same name that is not the binding's, and
\* values of other types
Resources ==
    {[type_name |-> "PythonModuleSource", native |-> TRUE, name |-> ModuleNames[n],
      is_package |-> p, source |-> s] :
        n \in 1..MaxModules, p \in BOOLEAN, s \in {"x = 1", "x = 2"}}
    \cup {[type_name |-> k, native |-> k # "PythonModuleSource", name |-> ModuleNames[n],
           is_package |-> FALSE, source |-> "x = 1"] :
             k \in {"PythonModuleSource", "PythonModuleBytecode", "str"},
             n \in 1..MaxModules}

InitCollector ==
    /\ target = "linux"
    /\ config = Manifest(ValidBuilds, ValidPythonDistributions, <<>>, ValidPackagingRules,
                         <<>>, <<>>, BothKeys)
    /\ pc = "deserialize"
    /\ result = Pending
    /\ selected = [build |-> <<>>, python_distribution |-> <<>>,
                   embedded_python_config |-> <<>>, packaging_rule |-> <<>>,
                   embedded_python_run |-> <<>>, distribution |-> <<>>]
    /\ application_name = None
    /\ build_path = <<>>
    /\ python_distribution = None
    /\ py = None
    /\ have_stdlib_extensions_policy = FALSE
    /\ have_stdlib = FALSE
    /\ python_packaging = <<>>
    /\ run = None
    /\ distributions = <<>>
    /\ collector = None
    /\ call = [op |-> "none"]
    /\ outcome = Pending

NextCollector ==
    \/ \E policy \in PolicyStrings, cache_tag \in CacheTags : New(policy, cache_tag)
    \/ Policy
    \/ \E resource \in Resources : AddInMemory(resource)

SpecCollector == InitCollector /\ [][NextCollector]_vars

MaxDefects == 2

\* embedded_python_config entries with something wrong, for every target or
\* for one, and a sound one
DefectEntries ==
    {Merge(EmptyPythonConfig, e) :
        e \in {[optimize_level |-> Some(3)],
               [terminfo_resolution |-> Some("static")],
               [stdio_encoding |-> Some(<<"l">>)],
               [optimize_level |-> Some(1), dont_write_bytecode |-> Some(FALSE)],
               [build_target |-> WINDOWS_MSVC, optimize_level |-> Some(7)],
               [build_target |-> WINDOWS_MSVC, terminfo_resolution |-> Some("static")]}}

\* packaging rules that miss a mandatory rule or hold an unparsable
\* install_location, for every target or for one
DefectPackagingRules ==
    {ValidPackagingRules,
     <<>>,
     <<StdlibExtensionsPolicyRule(ALL)>>,
     <<StdlibRule(ALL, EMBEDDED)>>,
     <<StdlibRule(ALL, BOGUS)>>,
     <<StdlibExtensionsPolicyRule(ALL), StdlibRule(WINDOWS_MSVC, BOGUS),
       StdlibRule("linux", EMBEDDED)>>,
     <<StdlibExtensionsPolicyRule(WINDOWS_MSVC), StdlibRule(ALL, EMBEDDED)>>}

DefectHeads ==
    {[builds |-> ValidBuilds, dists |-> ValidPythonDistributions],
     [builds |-> <<>>, dists |-> ValidPythonDistributions],
     [builds |-> <<>>, dists |-> <<>>],
     [builds |-> ValidBuilds, dists |-> <<>>],
     [builds |-> ValidBuilds, dists |-> SubSeq(ValidPythonDistributions, 1, 1)],
     [builds |-> <<[build_target |-> WINDOWS_MSVC, application_name |-> Some("app"),
                    build_path |-> None]>>,
      dists |-> ValidPythonDistributions]}

DefectTails ==
    {[runs |-> <<>>, dists |-> <<>>],
     [runs |-> <<[mode |-> "Repl", build_target |-> WINDOWS_MSVC]>>,
      dists |-> <<[type |-> "Tarball", build_target |-> WINDOWS_MSVC,
                   path_prefix |-> None]>>]}

DefectManifests ==
    {Manifest(h.builds, h.dists, c, r, t.runs, t.dists, BothKeys) :
        h \in DefectHeads,
        c \in SeqsUpTo(DefectEntries, MaxDefects),
        r \in DefectPackagingRules,
        t \in DefectTails}

InitFailFast == InitWith(DefectManifests)

SpecFailFast == InitFailFast /\ [][Next]_vars

InitPackaging == InitWith(PackagingManifests)

SpecPackaging == InitPackaging /\ [][Next]_vars

Init == InitWith(MixedManifests \cup BuildManifests \cup PythonDistributionManifests)

Spec == Init /\ [][Next]_vars

----------------------------------------------------------------------------
(* Properties *)

Range(seq) == {seq[i] : i \in 1..Len(seq)}

Increasing(seq) == \A i \in 1..Len(seq), j \in 1..Len(seq) : i < j => seq[i] < seq[j]

StepOrder ==
    <<"deserialize", "build", "python_distribution", "embedded_python_config",
      "packaging_rule", "embedded_python_run", "filesystem_importer", "distribution",
      "return">>

Position(step) == CHOOSE i \in 1..Len(StepOrder) : StepOrder[i] = step

\* the block of `category` has run to its end without returning
Completed(category) ==
    IF pc = "done"
    THEN result.tag = "Ok"
    ELSE Position(pc) > Position(category)

Entries(category) ==
    CASE category = "build" -> config.builds
      [] category = "python_distribution" -> config.python_distributions
      [] category = "embedded_python_config" -> config.python_configs
      [] category = "packaging_rule" -> config.packaging_rules
      [] category = "embedded_python_run" -> config.python_run
      [] category = "distribution" -> config.distributions

Categories ==
    {"build", "python_distribution", "embedded_python_config", "packaging_rule",
     "embedded_python_run", "distribution"}

\* the entries of a category declared for "all" or for exactly the target
WildcardOrEqual(category) ==
    {i \in 1..Len(Entries(category)) :
        \/ Entries(category)[i].build_target = "all"
        \/ Entries(category)[i].build_target = target}

\* the entries of a category declared for exactly the target
EqualOnly(category) ==
    {i \in 1..Len(Entries(category)) : Entries(category)[i].build_target = target}

EndToEndManifest(dist_target) ==
    /\ config.keys = BothKeys
    /\ Len(config.builds) = 1
    /\ config.builds[1].build_target = "all"
    /\ IsSome(config.builds[1].application_name)
    /\ Len(config.python_distributions) = 1
    /\ config.python_distributions[1].build_target = dist_target
    /\ Len(config.packaging_rules) = 2
    /\ {config.packaging_rules[i].type : i \in 1..2} = {"Stdlib", "StdlibExtensionsPolicy"}
    /\ \A i \in 1..2 : config.packaging_rules[i].build_target = "all"
    /\ config.python_configs = <<>>
    /\ config.python_run = <<>>
    /\ config.distributions = <<>>

\* parse_config returned a Config with the two rules in declaration order
TwoRulesInOrder ==
    /\ result.tag = "Ok"
    /\ Len(result.value.python_packaging) = 2
    /\ \A i \in 1..2 :
          result.value.python_packaging[i].type = config.packaging_rules[i].type

Min(S) == CHOOSE x \in S : \A y \in S : x <= y

Max(S) == CHOOSE x \in S : \A y \in S : x >= y

IsErr(r, msg) == r.tag = "Err" /\ r.msg = msg

\* a PythonDistribution carrying the variant, path or url and sha256 of entry e
CarriesDistribution(pd, e) ==
    /\ pd.variant = e.variant
    /\ pd.sha256 = e.sha256
    /\ e.variant = "Local" => pd.local_path = e.local_path
    /\ e.variant = "Url" => pd.url = e.url

C6_MissingApplicationName ==
    (pc = "done" /\ BothKeys \subseteq config.keys) =>
        (IsErr(result, MissingApplicationName)
            <=> ~\E i \in WildcardOrEqual("build") : IsSome(config.builds[i].application_name))

\* the name is set only by a build entry for another target
C6_Witness ==
    /\ pc = "done"
    /\ IsErr(result, MissingApplicationName)
    /\ \E i \in 1..Len(config.builds) :
          /\ IsSome(config.builds[i].application_name)
          /\ i \notin WildcardOrEqual("build")
    /\ WildcardOrEqual("build") # {}

----------------------------------------------------------------------------
(* Last-wins folds: C5 *)

PyActive == WildcardOrEqual("embedded_python_config")

\* the active embedded_python_config entries that set field f
Setters(f) == {i \in PyActive : IsSome(config.python_configs[i][f])}

LastSetter(f) == config.python_configs[Max(Setters(f))]

\* the value of the last active entry setting f, or the default
LastValue(f, default) ==
    IF Setters(f) = {} THEN default ELSE Unwrap(LastSetter(f)[f])

BuildSetters(f) == {i \in WildcardOrEqual("build") : IsSome(config.builds[i][f])}

FirstColon(v) == Min({k \in 1..Len(v) : v[k] = ":"} \cup {Len(v) + 1})

\* the text before the first ':' of v, and the text between it and the next
NamePart(v) == SubSeq(v, 1, FirstColon(v) - 1)

ErrorsPart(v) == NamePart(SubSeq(v, FirstColon(v) + 1, Len(v)))

\* record r holds, field by field, what the last active setter gave or the
\* default of lines 608-626
LastWinsPython(r, with_filesystem_importer) ==
    /\ r.dont_write_bytecode = LastValue("dont_write_bytecode", TRUE)
    /\ r.ignore_environment = LastValue("ignore_environment", TRUE)
    /\ r.no_site = LastValue("no_site", TRUE)
    /\ r.no_user_site_directory = LastValue("no_user_site_directory", TRUE)
    /\ r.optimize_level = LastValue("optimize_level", 0)
    /\ r.unbuffered_stdio = LastValue("unbuffered_stdio", FALSE)
    /\ with_filesystem_importer =>
          r.filesystem_importer = LastValue("filesystem_importer", FALSE)
    /\ r.sys_frozen = LastValue("sys_frozen", FALSE)
    /\ r.sys_meipass = LastValue("sys_meipass", FALSE)
    /\ r.sys_paths = LastValue("sys_paths", <<>>)
    /\ r.raw_allocator =
          LastValue("raw_allocator",
                    IF target = "x86_64-pc-windows-msvc" THEN "System" ELSE "Jemalloc")
    /\ r.write_modules_directory_env =
          IF Setters("write_modules_directory_env") = {}
          THEN None
          ELSE Some(LastValue("write_modules_directory_env", None))
    /\ IF Setters("stdio_encoding") = {}
       THEN r.stdio_encoding_name = None /\ r.stdio_encoding_errors = None
       ELSE /\ r.stdio_encoding_name = Some(NamePart(LastValue("stdio_encoding", None)))
            /\ r.stdio_encoding_errors = Some(ErrorsPart(LastValue("stdio_encoding", None)))
    /\ IF Setters("terminfo_resolution") = {}
       THEN r.terminfo_resolution.variant = "Dynamic"
       ELSE LET e == LastSetter("terminfo_resolution")
            IN  /\ e.terminfo_resolution = Some("dynamic") =>
                      r.terminfo_resolution.variant = "Dynamic"
                /\ e.terminfo_resolution = Some("none") =>
                      r.terminfo_resolution.variant = "None"
                /\ e.terminfo_resolution = Some("static") =>
                      /\ r.terminfo_resolution.variant = "Static"
                      /\ Some(r.terminfo_resolution.dirs) = e.terminfo_dirs

LastWinsBuild(name, path) ==
    /\ BuildSetters("application_name") # {}
    /\ name = Unwrap(config.builds[Max(BuildSetters("application_name"))].application_name)
    /\ IF BuildSetters("build_path") = {}
       THEN path = <<"/proj", "/", "build">>
       ELSE LET p == Unwrap(config.builds[Max(BuildSetters("build_path"))].build_path)
            IN  path = [i \in 1..Len(p) |-> IF p[i] = "$ORIGIN" THEN "/proj" ELSE p[i]]

----------------------------------------------------------------------------
(* Validation inside the embedded_python_config loop: C7, C8, C9 *)

PyEntry(i) == config.python_configs[i]

BadLevel(i) ==
    /\ IsSome(PyEntry(i).optimize_level)
    /\ Unwrap(PyEntry(i).optimize_level) \notin {0, 1, 2}

NoSeparator(i) ==
    /\ IsSome(PyEntry(i).stdio_encoding)
    /\ \A k \in 1..Len(Unwrap(PyEntry(i).stdio_encoding)) :
          Unwrap(PyEntry(i).stdio_encoding)[k] # ":"

StaticWithoutDirs(i) ==
    /\ PyEntry(i).terminfo_resolution = Some("static")
    /\ PyEntry(i).terminfo_dirs = None

Defective(i) == BadLevel(i) \/ NoSeparator(i) \/ StaticWithoutDirs(i)

\* entry i is the first active entry with anything wrong
FirstDefective(i) ==
    /\ i \in PyActive
    /\ Defective(i)
    /\ \A j \in PyActive : j < i => ~Defective(j)

\* C7, as stated: the embedded_python_config block fails when the last-wins
\* optimize_level of the active entries is not 0, 1 or 2, and does not fail
\* with InvalidOptimizeLevel when it is.
C7_AsStated ==
    [][pc = "embedded_python_config" =>
        /\ LastValue("optimize_level", 0) \notin {0, 1, 2} => pc' = "done"
        /\ LastValue("optimize_level", 0) \in {0, 1, 2} =>
              ~IsErr(result', InvalidOptimizeLevel)
      ]_vars

\* C7, amended: every active entry's optimize_level is validated as the
\* entry is applied.  The block fails with InvalidOptimizeLevel (carrying the
\* value) exactly when the first active entry with anything wrong has an
\* optimize_level other than 0, 1, 2, whatever later entries set; it cannot
\* when every active optimize_level is 0, 1, 2 or unset; and a returned
\* Config has optimize_level in {0, 1, 2}.
C7_OptimizeLevel ==
    [][/\ pc = "embedded_python_config" =>
            /\ IsErr(result', InvalidOptimizeLevel)
                  <=> \E i \in PyActive : FirstDefective(i) /\ BadLevel(i)
            /\ IsErr(result', InvalidOptimizeLevel) =>
                  \E i \in PyActive :
                      /\ FirstDefective(i)
                      /\ result'.arg = Unwrap(PyEntry(i).optimize_level)
            /\ (\E i \in PyActive : BadLevel(i)) => pc' = "done"
            /\ pc' # "done" => py'.optimize_level \in {0, 1, 2}
       /\ result'.tag = "Ok" => result'.value.optimize_level \in {0, 1, 2}
      ]_vars

\* an invalid level followed by an active entry setting a valid one
C7_Witness ==
    /\ pc = "done"
    /\ IsErr(result, InvalidOptimizeLevel)
    /\ result.arg = 3
    /\ LastValue("optimize_level", 0) \in {1, 2}

LastModeIsStatic ==
    /\ Setters("terminfo_resolution") # {}
    /\ LastSetter("terminfo_resolution").terminfo_resolution = Some("static")

\* C8, as stated: with a last-wins terminfo mode of static, success needs
\* terminfo_dirs and carries it in Static; with static and no terminfo_dirs
\* in any active entry the block fails; with a last-wins mode other than
\* static the block never fails with TerminfoDirsRequired.
C8_AsStated ==
    [][pc = "embedded_python_config" =>
        /\ (LastModeIsStatic /\ pc' # "done") =>
              /\ IsSome(LastSetter("terminfo_resolution").terminfo_dirs)
              /\ py'.terminfo_resolution =
                    [variant |-> "Static",
                     dirs |-> Unwrap(LastSetter("terminfo_resolution").terminfo_dirs)]
        /\ (LastModeIsStatic /\ Setters("terminfo_dirs") = {}) => pc' = "done"
        /\ ~LastModeIsStatic => ~IsErr(result', TerminfoDirsRequired)
      ]_vars

\* C8, amended: each active entry that sets terminfo_resolution = static must
\* carry terminfo_dirs itself.  The block fails with TerminfoDirsRequired
\* exactly when the first active entry with anything wrong sets static
\* without terminfo_dirs and is otherwise sound, whatever later entries set;
\* it cannot when no active entry sets static without terminfo_dirs; on
\* success with a last-wins mode of static, the resolved mode is Static with
\* the terminfo_dirs of the entry that set it.
C8_TerminfoDirs ==
    [][pc = "embedded_python_config" =>
        /\ IsErr(result', TerminfoDirsRequired)
              <=> \E i \in PyActive :
                      /\ FirstDefective(i)
                      /\ StaticWithoutDirs(i)
                      /\ ~BadLevel(i)
                      /\ ~NoSeparator(i)
        /\ (\E i \in PyActive : StaticWithoutDirs(i)) => pc' = "done"
        /\ (LastModeIsStatic /\ pc' # "done") =>
              /\ IsSome(LastSetter("terminfo_resolution").terminfo_dirs)
              /\ py'.terminfo_resolution =
                    [variant |-> "Static",
                     dirs |-> Unwrap(LastSetter("terminfo_resolution").terminfo_dirs)]
      ]_vars

\* static without terminfo_dirs, then an active entry setting another mode
C8_Witness ==
    /\ pc = "done"
    /\ IsErr(result, TerminfoDirsRequired)
    /\ ~LastModeIsStatic
    /\ Setters("terminfo_resolution") # {}

InvalidStdioEncoding == "InvalidStdioEncoding"

\* C9, as stated: when the block succeeds, stdio_encoding_name and
\* stdio_encoding_errors are the two parts of the last active stdio_encoding;
\* when the first active entry with anything wrong has a sound optimize_level
\* and a stdio_encoding without ':', parse_config returns the
\* InvalidStdioEncoding error.
C9_AsStated ==
    [][pc = "embedded_python_config" =>
        /\ (pc' # "done" /\ Setters("stdio_encoding") # {}) =>
              /\ py'.stdio_encoding_name = Some(NamePart(LastValue("stdio_encoding", None)))
              /\ py'.stdio_encoding_errors = Some(ErrorsPart(LastValue("stdio_encoding", None)))
        /\ (\E i \in PyActive : FirstDefective(i) /\ ~BadLevel(i) /\ NoSeparator(i)) =>
              IsErr(result', InvalidStdioEncoding)
      ]_vars

\* parse_config has panicked on an active stdio_encoding without ':'
C9_Witness ==
    /\ pc = "done"
    /\ result.tag = "Panic"
    /\ result.msg = IndexOutOfBounds
    /\ \E i \in PyActive : FirstDefective(i) /\ ~BadLevel(i) /\ NoSeparator(i)

----------------------------------------------------------------------------
(* The mandatory packaging rules: C10 *)

\* the active packaging rules of a type
ActiveRules(type) ==
    {i \in WildcardOrEqual("packaging_rule") : config.packaging_rules[i].type = type}

\* rule i is active and its install_location is neither "embedded" nor
\* "app-relative:<path>"
BadLocation(i) ==
    /\ i \in WildcardOrEqual("packaging_rule")
    /\ "install_location" \in DOMAIN config.packaging_rules[i]
    /\ LET loc == config.packaging_rules[i].install_location
       IN  ~(\/ loc = <<"e", "m", "b", "e", "d", "d", "e", "d">>
             \/ (Len(loc) >= Len(APP_RELATIVE) /\ SubSeq(loc, 1, Len(APP_RELATIVE)) = APP_RELATIVE))

\* C10: the packaging block fails when no stdlib-extensions-policy rule or no
\* stdlib rule is active for the target, rules of other targets not counting:
\* with MissingStdlibExtensionsPolicy when no policy rule is active, with
\* MissingStdlibRule when a policy rule is active and no stdlib rule is
\* (unless an install_location error came first); a returned Config holds a
\* StdlibExtensionsPolicy and a Stdlib entry.
C10_MandatoryRules ==
    [][/\ pc = "packaging_rule" =>
            /\ (ActiveRules("StdlibExtensionsPolicy") = {} \/ ActiveRules("Stdlib") = {}) =>
                  (pc' = "done" /\ result'.tag = "Err")
            /\ (~\E i \in 1..Len(config.packaging_rules) : BadLocation(i)) =>
                  /\ ActiveRules("StdlibExtensionsPolicy") = {} =>
                        IsErr(result', MissingStdlibExtensionsPolicy)
                  /\ (ActiveRules("StdlibExtensionsPolicy") # {} /\ ActiveRules("Stdlib") = {}) =>
                        IsErr(result', MissingStdlibRule)
       /\ result'.tag = "Ok" =>
            /\ \E k \in 1..Len(result'.value.python_packaging) :
                  result'.value.python_packaging[k].type = "StdlibExtensionsPolicy"
            /\ \E k \in 1..Len(result'.value.python_packaging) :
                  result'.value.python_packaging[k].type = "Stdlib"
      ]_vars

\* a policy rule exists, for another target only
C10_Witness ==
    /\ pc = "done"
    /\ IsErr(result, MissingStdlibExtensionsPolicy)
    /\ ActiveRules("Stdlib") # {}
    /\ \E i \in 1..Len(config.packaging_rules) :
          /\ config.packaging_rules[i].type = "StdlibExtensionsPolicy"
          /\ i \notin WildcardOrEqual("packaging_rule")

----------------------------------------------------------------------------
(* The two lists of the Config: C11 *)

\* the members of a set of indices, in increasing order
Ascending(S) ==
    CHOOSE seq \in [1..Cardinality(S) -> S] : Increasing(seq) /\ Range(seq) = S

\* p is the PythonPackaging variant named as rule r, with r's payload
SameVariant(p, r) ==
    /\ p.type = r.type
    /\ \A f \in DOMAIN r \ {"type", "build_target", "install_location", "package_path"} :
          p[f] = r[f]
    /\ "package_path" \in DOMAIN r => p.path = r.package_path
    /\ "install_location" \in DOMAIN r =>
          \/ r.install_location = <<"e", "m", "b", "e", "d", "d", "e", "d">>
             /\ p.install_location.variant = "Embedded"
          \/ /\ p.install_location.variant = "AppRelative"
             /\ APP_RELATIVE \o p.install_location.path = r.install_location

\* d is the Distribution variant named as entry e, with e's payload
SameDistribution(d, e) ==
    /\ DOMAIN d = DOMAIN e \ {"build_target"}
    /\ \A f \in DOMAIN d : d[f] = e[f]

\* C11: a returned Config.python_packaging is the active packaging_rule
\* entries, each as its same-named variant, in declaration order, and
\* Config.distributions is the active distribution entries in declaration
\* order: none dropped, duplicated, reordered or added; an empty
\* distributions list is accepted.
C11_ListsInOrder ==
    (pc = "done" /\ result.tag = "Ok") =>
        LET rules == Ascending(WildcardOrEqual("packaging_rule"))
            dists == Ascending(WildcardOrEqual("distribution"))
        IN  /\ Len(result.value.python_packaging) = Len(rules)
            /\ \A k \in 1..Len(rules) :
                  SameVariant(result.value.python_packaging[k],
                              config.packaging_rules[rules[k]])
            /\ Len(result.value.distributions) = Len(dists)
            /\ \A k \in 1..Len(dists) :
                  SameDistribution(result.value.distributions[k],
                                   config.distributions[dists[k]])

\* both lists skip an entry of another target that is declared between two
\* active ones
C11_Witness ==
    /\ pc = "done"
    /\ result.tag = "Ok"
    /\ Len(result.value.python_packaging) = 2
    /\ Len(config.packaging_rules) = 3
    /\ Len(result.value.distributions) = 2
    /\ Len(config.distributions) = 3
    /\ 2 \notin WildcardOrEqual("distribution")
    /\ result.value.distributions[1] # result.value.distributions[2]

\* a manifest without distribution entries resolves
C11_EmptyDistributions ==
    /\ pc = "done"
    /\ result.tag = "Ok"
    /\ config.distributions = <<>>
    /\ result.value.distributions = <<>>

----------------------------------------------------------------------------
(* The run mode: C12 *)

\* m is the RunMode named as entry e, with e's payload and nothing else
SameRunMode(m, e) ==
    /\ DOMAIN m = DOMAIN e \ {"build_target"}
    /\ \A f \in DOMAIN m : m[f] = e[f]

\* C12: the resolved run mode is the mode, with its module or code, of the
\* last embedded_python_run entry active for the target, all of it replaced
\* and nothing kept of an earlier entry; it is Noop when no entry is active.
C12_LastRunMode ==
    /\ Completed("embedded_python_run") =>
          LET active == WildcardOrEqual("embedded_python_run")
          IN  IF active = {}
              THEN run = [mode |-> "Noop"]
              ELSE SameRunMode(run, config.python_run[Max(active)])
    /\ (pc = "done" /\ result.tag = "Ok") => result.value.run = run

\* an Eval entry, then the governing entry of another mode, then an entry of
\* another target
C12_Witness ==
    /\ pc = "done"
    /\ result.tag = "Ok"
    /\ Len(config.python_run) = 3
    /\ WildcardOrEqual("embedded_python_run") = {1, 2}
    /\ config.python_run[1].mode = "Eval"
    /\ config.python_run[2].mode = "Module"
    /\ result.value.run = [mode |-> "Module", module |-> config.python_run[2].module]

----------------------------------------------------------------------------
(* The filesystem importer flag: C13 *)

\* the active embedded_python_config entries declaring a non-empty sys_paths
DeclaresSysPaths ==
    {i \in PyActive : IsSome(PyEntry(i).sys_paths) /\ Unwrap(PyEntry(i).sys_paths) # <<>>}

\* C13, as stated: the flag of a returned Config is true exactly when the
\* governing entry sets it to true or any active entry declares a non-empty
\* sys_paths.
C13_AsStated ==
    (pc = "done" /\ result.tag = "Ok") =>
        result.value.filesystem_importer =
            (LastValue("filesystem_importer", FALSE) \/ DeclaresSysPaths # {})

\* C13: the flag of a returned Config is true exactly when the last active
\* entry setting filesystem_importer sets it to true, or the resolved
\* (last-wins) sys_paths is non-empty; a non-empty sys_paths that a later
\* active entry replaces by an empty one does not raise the flag.
C13_FilesystemImporter ==
    /\ (pc = "done" /\ result.tag = "Ok") =>
          /\ result.value.filesystem_importer =
                (LastValue("filesystem_importer", FALSE)
                 \/ LastValue("sys_paths", <<>>) # <<>>)
          /\ result.value.sys_paths = LastValue("sys_paths", <<>>)
    /\ pc \in {"distribution", "return"} =>
          py.filesystem_importer =
              (LastValue("filesystem_importer", FALSE) \/ LastValue("sys_paths", <<>>) # <<>>)

\* the flag is raised by sys_paths alone, against an explicit false
C13_Witness ==
    /\ pc = "done"
    /\ result.tag = "Ok"
    /\ result.value.filesystem_importer
    /\ Setters("filesystem_importer") # {}
    /\ ~LastValue("filesystem_importer", FALSE)
    /\ result.value.sys_paths # <<>>

----------------------------------------------------------------------------
(* resolve_install_location: C14 *)

\* the install_location string of the stdlib rule, and what came of it
Location == config.packaging_rules[2].install_location

HasPrefix(v) ==
    /\ Len(v) >= 13
    /\ \A k \in 1..13 : v[k] = APP_RELATIVE[k]

\* C14: resolve_install_location gives a result for every string, without
\* trimming or case-folding: Embedded for exactly "embedded", AppRelative
\* with exactly the text after the prefix for a string starting with
\* "app-relative:", and for every other string an error carrying the string.
C14_InstallLocation ==
    pc \in {"embedded_python_run", "done"} =>
        IF Location = <<"e", "m", "b", "e", "d", "d", "e", "d">>
        THEN /\ pc = "done" => result.tag = "Ok"
             /\ python_packaging[2].install_location = [variant |-> "Embedded"]
        ELSE IF HasPrefix(Location)
             THEN /\ pc = "done" => result.tag = "Ok"
                  /\ python_packaging[2].install_location.variant = "AppRelative"
                  /\ APP_RELATIVE \o python_packaging[2].install_location.path = Location
             ELSE /\ pc = "done"
                  /\ result = [tag |-> "Err", msg |-> InvalidInstallLocation,
                               arg |-> Location]

\* "app-relative:" followed by text with a separator and a space in it
C14_Witness ==
    /\ pc = "done"
    /\ result.tag = "Ok"
    /\ result.value.python_packaging[2].install_location =
          [variant |-> "AppRelative", path |-> <<":", " ">>]

\* a spelling in another case is refused, with the string in the error
C14_WitnessRefused ==
    /\ pc = "done"
    /\ result.tag = "Err"
    /\ result.msg = InvalidInstallLocation
    /\ result.arg = <<"E", "m", "b", "e", "d", "d", "e", "d">>

----------------------------------------------------------------------------
(* The collector binding: C15, C16, C17 *)

\* C15: add_in_memory of a value whose type is not PythonModuleSource fails
\* with the unsupported-kind TypeError naming the type, and leaves the
\* collector, its recorded resources and its policy, as it was.
C15_UnsupportedKind ==
    [][(call'.op = "add_in_memory" /\ call'.arg.type_name # "PythonModuleSource") =>
          /\ outcome' = [tag |-> "Err", type |-> "TypeError",
                         msg |-> UnsupportedResourceKind, arg |-> call'.arg.type_name]
          /\ collector' = collector
      ]_vars

\* a str is refused by a collector that holds a resource, and still holds it
C15_Witness ==
    /\ call.op = "add_in_memory"
    /\ call.arg.type_name = "str"
    /\ outcome.tag = "Err"
    /\ outcome.msg = UnsupportedResourceKind
    /\ outcome.arg = "str"
    /\ IsSome(collector)
    /\ Unwrap(collector).resources # {}

\* the strings that stand for the three policies of spec.md section 2
Recognised == {"in-memory-only", "filesystem-relative-only", "prefer-in-memory"}

C16_WitnessRefused ==
    /\ call.op = "new"
    /\ call.arg = "In-Memory-Only"
    /\ outcome.tag = "Err"
    /\ collector = None

\* the resources a collector holds under a name
Recorded(c, name) == {r \in Unwrap(c).resources : r.name = name}

\* C17: a collector never holds two resources of one name.  A module source
\* submitted under a recorded name is accepted, and recorded in place of
\* the earlier one, when it is the same module (package or not); otherwise
\* the call fails with the duplicate-resource ValueError and the earlier
\* resource stays.
C17_UniqueNames ==
    [][/\ IsSome(collector') =>
            \A r1 \in Unwrap(collector').resources, r2 \in Unwrap(collector').resources :
                r1.name = r2.name => r1 = r2
       /\ (/\ call'.op = "add_in_memory"
           /\ call'.arg.type_name = "PythonModuleSource"
           /\ call'.arg.native
           /\ Recorded(collector, call'.arg.name) # {}) =>
            IF \A r \in Recorded(collector, call'.arg.name) :
                   r.is_package = call'.arg.is_package
            THEN /\ outcome'.tag = "Ok"
                 /\ Recorded(collector', call'.arg.name) =
                       {[name |-> call'.arg.name, is_package |-> call'.arg.is_package,
                         source |-> call'.arg.source]}
            ELSE /\ outcome' = [tag |-> "Err", type |-> "ValueError",
                                msg |-> DuplicateResource, arg |-> call'.arg.name]
                 /\ collector' = collector
      ]_vars

\* a package is refused under the name of a recorded module, which stays
C17_Witness ==
    /\ call.op = "add_in_memory"
    /\ outcome.tag = "Err"
    /\ outcome.msg = DuplicateResource
    /\ call.arg.is_package
    /\ \E r \in Recorded(collector, call.arg.name) : ~r.is_package

\* a recorded module is submitted again with another source, and replaced
C17_WitnessRefined ==
    /\ call.op = "add_in_memory"
    /\ outcome.tag = "Ok"
    /\ call.arg.source = "x = 2"
    /\ Cardinality(Unwrap(collector).resources) = 2
    /\ \A r \in Unwrap(collector).resources : r.source = "x = 2"

----------------------------------------------------------------------------
(* Fail-fast in step order: C18 *)

\* the active embedded_python_config entries failing one of the two checks
\* that return an error
Refused == {i \in PyActive : BadLevel(i) \/ StaticWithoutDirs(i)}

\* the error of the earliest step that has one, "none" when no step has
ExpectedError ==
    IF BuildSetters("application_name") = {} THEN MissingApplicationName
    ELSE IF config.python_distributions = <<>> THEN NoDistributionSections
    ELSE IF EqualOnly("python_distribution") = {} THEN NoMatchingDistribution
    ELSE IF Refused # {}
         THEN IF BadLevel(Min(Refused)) THEN InvalidOptimizeLevel ELSE TerminfoDirsRequired
    ELSE IF \E i \in 1..Len(config.packaging_rules) : BadLocation(i)
         THEN InvalidInstallLocation
    ELSE IF ActiveRules("StdlibExtensionsPolicy") = {} THEN MissingStdlibExtensionsPolicy
    ELSE IF ActiveRules("Stdlib") = {} THEN MissingStdlibRule
    ELSE "none"

\* C18, as stated: when the manifest violates one or several of the
\* constraints, parse_config returns one error, that of the earliest failing
\* step in the order build, python_distribution, embedded_python_config (in
\* entry order), packaging rules, and no Config.
C18_AsStated ==
    (pc = "done" /\ ExpectedError # "none") =>
        /\ result.tag = "Err"
        /\ result.msg = ExpectedError

\* parse_config has left by a panic a manifest that violates a constraint
C18_Witness ==
    /\ pc = "done"
    /\ result.tag = "Panic"
    /\ ExpectedError = InvalidOptimizeLevel

\* what holds: the claim's order, with the panic of the stdio_encoding split
\* at its place between the two checks of an entry
C18_FailFast ==
    pc = "done" =>
        LET early == ExpectedError \in {MissingApplicationName, NoDistributionSections,
                                        NoMatchingDistribution}
            panicking == {i \in PyActive : FirstDefective(i) /\ ~BadLevel(i) /\ NoSeparator(i)}
        IN  IF ~early /\ panicking # {}
            THEN result.tag = "Panic"
            ELSE IF ExpectedError # "none"
                 THEN result.tag = "Err" /\ result.msg = ExpectedError
                 ELSE result.tag = "Ok"

----------------------------------------------------------------------------
(* Entries of other targets: C19 *)

\* the block-by-block run and the function give the same result
ParseConfigAgrees == pc = "done" => result = parse_config(config, target)

\* the entries declared for "all" or for t
Kept(entries, t) ==
    LET Declared(e) == e.build_target = "all" \/ e.build_target = t
    IN  SelectSeq(entries, Declared)

\* the manifest with the entries of other targets deleted; with drop_keys, a
\* key whose last entry is deleted goes with it
Strip(cfg, t, drop_keys) ==
    [builds |-> Kept(cfg.builds, t),
     python_distributions |-> Kept(cfg.python_distributions, t),
     python_configs |-> Kept(cfg.python_configs, t),
     packaging_rules |-> Kept(cfg.packaging_rules, t),
     python_run |-> Kept(cfg.python_run, t),
     distributions |-> Kept(cfg.distributions, t),
     keys |-> {k \in cfg.keys :
                 \/ ~drop_keys
                 \/ k = "packaging_rule" /\
                      (cfg.packaging_rules = <<>> \/ Kept(cfg.packaging_rules, t) # <<>>)
                 \/ k = "embedded_python_run" /\
                      (cfg.python_run = <<>> \/ Kept(cfg.python_run, t) # <<>>)}]

\* C19: entries not active for the target never make resolution fail:
\* whenever the manifest with them deleted resolves, the full manifest
\* resolves, to the same Config.
C19_InactiveEntries ==
    pc = "done" =>
        \A drop_keys \in BOOLEAN :
            LET stripped == parse_config(Strip(config, target, drop_keys), target)
            IN  stripped.tag = "Ok" => result = stripped

\* a Config is returned for a manifest holding, for another target, an
\* embedded_python_config entry with a bad optimize_level or a static
\* terminfo without terminfo_dirs, and a rule with an unparsable
\* install_location
C19_Witness ==
    /\ pc = "done"
    /\ result.tag = "Ok"
    /\ \E i \in 1..Len(config.python_configs) :
          i \notin PyActive /\ (BadLevel(i) \/ StaticWithoutDirs(i))
    /\ \E i \in 1..Len(config.packaging_rules) :
          /\ i \notin WildcardOrEqual("packaging_rule")
          /\ config.packaging_rules[i].install_location = BOGUS
    /\ Len(result.value.python_packaging) < Len(config.packaging_rules)

=============================================================================
